---- MODULE Spec2Model ----
(***************************************************************************)
(* Model of the tdlchar character device driver (tdlchar.c) and of the     *)
(* calls its user-space client (testtdlchar.c) makes on it.                *)
(*                                                                         *)
(* State: the driver's statics (message, size_of_message, numberOpens,     *)
(* tdlchar_mutex), the set of open files the VFS routes calls for, and     *)
(* observation variables recording the last call and its result.           *)
(* One action per file operation: dev_open, dev_read, dev_write,           *)
(* dev_release.                                                            *)
(***************************************************************************)
EXTENDS Integers, Sequences, FiniteSets, TLC

(* ---- program constants ---- *)
\* static char message[256]
N == 256
\* return -EBUSY
EBUSY == 16
\* return -EFAULT  (i.e. -14)
EFAULT == 14
\* 'a', 'z' and ('a' - 'A') of toupper()
LowerA == 97
LowerZ == 122
CaseOffset == 32

(* ---- bounds of the model ---- *)
\* number of callers (open file descriptions) that may race for the device
NumCallers == 2
\* every payload over Alphabet of length 0..MaxLen is written
MaxLen == 1
\* payloads of length N-1, N and N+MaxOver are written
MaxOver == 1
\* numberOpens is capped: a successful open needs numberOpens < MaxOpens
MaxOpens == 2
\* a write from partly inaccessible memory stores 0..MaxFault bytes before it faults
MaxFault == 1

Callers == 1..NumCallers

\* bytes used in payloads: NUL, 'a' (a lower-case letter), 'B' (passes through)
Alphabet == {0, 97, 66}

Rep(b, n) == [i \in 1..n |-> b]

SmallPayloads == UNION {[1..n -> Alphabet] : n \in 0..MaxLen}
\* longer payloads: "aB", and "B\0a" with a NUL in the middle
SamplePayloads == {<<97, 66>>, <<66, 0, 97>>}
BigPayloads == {Rep(97, n) : n \in {N - 1, N, N + MaxOver}}
Payloads == SmallPayloads \cup SamplePayloads \cup BigPayloads

\* the readable start of a caller's buffer whose remainder is not accessible
AccessiblePrefixes == {Rep(97, n) : n \in 0..MaxFault}

\* the len argument a caller passes to read(): the size of its destination
Capacities == {1, N}

Min(a, b) == IF a < b THEN a ELSE b

(* ---- state ---- *)
VARIABLES
  message,          \* static char message[256]: message[i] in C is message[i + 1] here
  size_of_message,  \* static short size_of_message
  numberOpens,      \* static int numberOpens
  tdlchar_mutex,    \* TRUE when the mutex is locked
  opened,           \* callers holding an open file (between open and release)
  oob,              \* some store has hit message[i] with i outside 0..N-1
  wr,               \* <<p>> when p is the last payload written and not yet read in this session
  unread,           \* number of complete writes in this session since the last successful
                    \* read or faulted write (capped at 2)
  shrunk,           \* the last write replaced an unread payload that was longer
  drained,          \* a read has succeeded and nothing has been written since
  left,             \* <<p>> when an earlier session closed with p written and unread
  inflight,         \* calls of one session that overlap in time (used by SpecOverlap)
  majorNumber,      \* static int majorNumber
  tdlcharClass,     \* static struct class* tdlcharClass: 0 is NULL, 1 a class, -e ERR_PTR(-e)
  tdlcharDevice,    \* static struct device* tdlcharDevice, encoded like tdlcharClass
  registered,       \* what the kernel holds for the module: "chrdev", "class", "device"
  mutex_destroyed,  \* mutex_destroy(&tdlchar_mutex) has run
  loader,           \* position of tdlchar_init / tdlchar_exit and the value init returned
  last              \* the last call made on the device and its outcome

lifecycle == <<majorNumber, tdlcharClass, tdlcharDevice, registered, mutex_destroyed, loader>>

vars == <<message, size_of_message, numberOpens, tdlchar_mutex, opened, oob, wr, unread,
          shrunk, drained, left, inflight, lifecycle, last>>

device == <<message, size_of_message, numberOpens, tdlchar_mutex>>

NoCall == [op |-> "none", who |-> 0, ret |-> 0, arg |-> <<>>, cap |-> 0,
           size0 |-> 0, copied |-> 0, data |-> <<>>, wr |-> <<>>, nw |-> 0,
           held0 |-> FALSE, drained0 |-> FALSE, shrunk0 |-> FALSE, retry |-> FALSE,
           left0 |-> <<>>]

\* no call is in progress: wbuf/wi are the buffer and loop index i of a
\* dev_write under way (wpc "idle" when none), rpc/rn/rdata the state of a
\* dev_read under way, done the payloads whose write has returned
Idle == [wpc |-> "idle", wbuf |-> <<>>, wi |-> 0,
         rpc |-> "idle", rn |-> 0, rdata |-> <<>>, done |-> {}]

(* ---- helpers translated from the code ---- *)

\* faulty variant of toupper: no conversion at all
ToupperIdentity(inChar) == inChar

\* faulty variant of toupper: 'z' left out of the range test
ToupperExclusiveZ(inChar) ==
  IF inChar >= LowerA /\ inChar < LowerZ THEN inChar - CaseOffset ELSE inChar

\* static char toupper(const char inChar)
Toupper(inChar) ==
  IF inChar >= LowerA /\ inChar <= LowerZ THEN inChar - CaseOffset ELSE inChar

\* the uppercase image of a whole payload, in order
Transform(p) == [i \in 1..Len(p) |-> Toupper(p[i])]

\* conversion of the strlen() result to the short size_of_message
ToShort(x) == ((x + 32768) % 65536) - 32768

\* faulty variant of strlen: the terminator is counted
StrlenCountsTerminator(m) ==
  IF \E i \in 1..N : m[i] = 0
  THEN CHOOSE i \in 1..N : m[i] = 0 /\ \A j \in 1..(i - 1) : m[j] # 0
  ELSE N

\* strlen(message) as long as a terminator lies inside the array; N when the
\* scan runs off the end of the array.  The C element message[i] is m[i + 1].
Strlen(m) ==
  IF \E i \in 1..N : m[i] = 0
  THEN (CHOOSE i \in 1..N : m[i] = 0 /\ \A j \in 1..(i - 1) : m[j] # 0) - 1
  ELSE N

\* faulty variant of the stores of dev_write: message[len] = '\0' left out
WriteStoreNoTerminator(m, buffer, len) ==
  SubSeq(Transform(buffer) \o SubSeq(m, len + 1, N), 1, N)

\* for (i = 0; i < len; i++) message[i] = toupper(buffer[i]);  message[len] = '\0';
\* restricted to the stores that land inside the array: the bytes after the
\* terminator keep what they held
WriteStore(m, buffer, len) ==
  IF len < N
  THEN Transform(buffer) \o <<0>> \o SubSeq(m, len + 2, N)
  ELSE SubSeq(Transform(buffer), 1, N)

\* strlen(message) after a write of len >= N: the terminator was stored past
\* the end of the array, so the scan reads memory outside message and may stop
\* at any index from N to len
OverrunLengths(m, len) ==
  IF Strlen(m) < N THEN {Strlen(m)} ELSE N..len

\* numberOpens after a write of len >= N: it is declared next to message and
\* may or may not be overwritten by the stores past the end of the array
ClobberedOpens(n) == {n} \cup 0..MaxOpens

\* faulty variant of mutex_trylock: always reports the mutex as acquired
MutexTrylockBroken(m) == TRUE

\* mutex_trylock(&tdlchar_mutex): nonzero iff the mutex was free
MutexTrylock(m) == ~m

\* third argument of copy_to_user(buffer, message, size_of_message)
CopyLength(size, len) == size

\* possible results of copy_to_user: the number of bytes NOT copied
UncopiedOutcomes(size) == {0} \cup {k \in {1, size} : k >= 1 /\ k <= size}

\* faulty variant of the return of dev_read: the count of bytes sent
ReadReturnCount(size) == size

\* return (size_of_message=0);  the value of the assignment, which is 0
ReadReturn(size) == 0

\* the bytes of message[0..n) that lie inside the array
Prefix(m, n) == SubSeq(m, 1, Min(n, N))

\* major number handed out by register_chrdev(0, ...)
DynamicMajor == 240

\* errors the registration calls can return (-ENOMEM, -EBUSY)
Errnos == {12, EBUSY}

Everything == {"chrdev", "class", "device"}

\* the module after tdlchar_init has returned 0
Loaded ==
  /\ majorNumber = DynamicMajor
  /\ tdlcharClass = 1
  /\ tdlcharDevice = 1
  /\ registered = Everything
  /\ mutex_destroyed = FALSE
  /\ loader = [pc |-> "live", ret |-> 0]

(* ---- Init: the state after a successful tdlchar_init ---- *)
Init ==
  /\ Loaded
  /\ message = [i \in 1..N |-> 0]
  /\ size_of_message = 0
  /\ numberOpens = 0
  /\ tdlchar_mutex = FALSE
  /\ opened = {}
  /\ oob = FALSE
  /\ wr = <<>>
  /\ unread = 0
  /\ shrunk = FALSE
  /\ drained = FALSE
  /\ left = <<>>
  /\ inflight = Idle
  /\ last = NoCall

(* ---- dev_open ---- *)
\* faulty variant of a successful open: the stored length is reset
DevOpenOkClears(c) ==
  /\ c \notin opened
  /\ MutexTrylock(tdlchar_mutex)
  /\ numberOpens < MaxOpens
  /\ tdlchar_mutex' = TRUE
  /\ numberOpens' = numberOpens + 1
  /\ opened' = opened \cup {c}
  /\ size_of_message' = 0
  /\ last' = [NoCall EXCEPT !.op = "open", !.who = c, !.ret = 0, !.held0 = (opened # {})]
  /\ UNCHANGED <<message, oob, wr, unread, shrunk, drained, left, inflight, lifecycle>>

DevOpenOk(c) ==
  /\ c \notin opened
  /\ MutexTrylock(tdlchar_mutex)
  /\ numberOpens < MaxOpens
  /\ tdlchar_mutex' = TRUE
  /\ numberOpens' = numberOpens + 1
  /\ opened' = opened \cup {c}
  /\ last' = [NoCall EXCEPT !.op = "open", !.who = c, !.ret = 0, !.held0 = (opened # {})]
  /\ UNCHANGED <<message, size_of_message, oob, wr, unread, shrunk, drained, left, inflight, lifecycle>>

\* faulty variant of the -EBUSY branch: numberOpens++ done before the trylock
DevOpenBusyCounted(c) ==
  /\ c \notin opened
  /\ ~MutexTrylock(tdlchar_mutex)
  /\ numberOpens' = numberOpens + 1
  /\ last' = [NoCall EXCEPT !.op = "open", !.who = c, !.ret = -EBUSY,
                            !.held0 = (opened # {})]
  /\ UNCHANGED <<message, size_of_message, tdlchar_mutex, opened, oob, wr, unread,
                 shrunk, drained, left, inflight, lifecycle>>

\* faulty variant of the -EBUSY branch: the error path calls mutex_unlock
DevOpenBusyUnlocks(c) ==
  /\ c \notin opened
  /\ ~MutexTrylock(tdlchar_mutex)
  /\ tdlchar_mutex' = FALSE
  /\ last' = [NoCall EXCEPT !.op = "open", !.who = c, !.ret = -EBUSY,
                            !.held0 = (opened # {})]
  /\ UNCHANGED <<message, size_of_message, numberOpens, opened, oob, wr, unread,
                 shrunk, drained, left, inflight, lifecycle>>

DevOpenBusy(c) ==
  /\ c \notin opened
  /\ ~MutexTrylock(tdlchar_mutex)
  /\ last' = [NoCall EXCEPT !.op = "open", !.who = c, !.ret = -EBUSY,
                            !.held0 = (opened # {})]
  /\ UNCHANGED <<message, size_of_message, numberOpens, tdlchar_mutex, opened, oob, wr, unread,
                 shrunk, drained, left, inflight, lifecycle>>

DevOpen(c) == DevOpenOk(c) \/ DevOpenBusy(c)

(* ---- dev_release ---- *)
\* faulty variant of dev_release: mutex_unlock left out
DevReleaseKeepsLock(c) ==
  /\ c \in opened
  /\ opened' = opened \ {c}
  /\ wr' = <<>>
  /\ unread' = 0
  /\ shrunk' = FALSE
  /\ left' = IF wr # <<>> THEN wr ELSE left
  /\ last' = [NoCall EXCEPT !.op = "release", !.who = c, !.ret = 0]
  /\ UNCHANGED <<message, size_of_message, numberOpens, tdlchar_mutex, oob, drained, inflight, lifecycle>>

\* faulty variant of dev_release: the stored length is reset at close
DevReleaseClears(c) ==
  /\ c \in opened
  /\ tdlchar_mutex' = FALSE
  /\ opened' = opened \ {c}
  /\ size_of_message' = 0
  /\ wr' = <<>>
  /\ unread' = 0
  /\ shrunk' = FALSE
  /\ left' = IF wr # <<>> THEN wr ELSE left
  /\ last' = [NoCall EXCEPT !.op = "release", !.who = c, !.ret = 0]
  /\ UNCHANGED <<message, numberOpens, oob, drained, inflight, lifecycle>>

DevRelease(c) ==
  /\ c \in opened
  /\ tdlchar_mutex' = FALSE
  /\ opened' = opened \ {c}
  /\ wr' = <<>>
  /\ unread' = 0
  /\ shrunk' = FALSE
  /\ left' = IF wr # <<>> THEN wr ELSE left
  /\ last' = [NoCall EXCEPT !.op = "release", !.who = c, !.ret = 0]
  /\ UNCHANGED <<message, size_of_message, numberOpens, oob, drained, inflight, lifecycle>>

(* ---- dev_write ---- *)
\* faulty variant of a write: accepted from a caller that has no open file
DevWriteFitsAnyCaller(c, buffer) ==
  LET len == Len(buffer)
      stored == WriteStore(message, buffer, len)
  IN /\ len < N
     /\ message' = stored
     /\ size_of_message' = ToShort(Strlen(stored))
     /\ wr' = <<buffer>>
     /\ unread' = Min(unread + 1, 2)
     /\ shrunk' = (wr # <<>> /\ Len(wr[1]) > len)
     /\ drained' = FALSE
     /\ left' = <<>>
     /\ last' = [NoCall EXCEPT !.op = "write", !.who = c, !.ret = len, !.arg = buffer]
     /\ UNCHANGED <<numberOpens, tdlchar_mutex, opened, oob, inflight, lifecycle>>

\* the write of a payload that fits: every store lies inside the array
DevWriteFits(c, buffer) ==
  LET len == Len(buffer)
      stored == WriteStore(message, buffer, len)
  IN /\ c \in opened
     /\ len < N
     /\ message' = stored
     /\ size_of_message' = ToShort(Strlen(stored))
     /\ wr' = <<buffer>>
     /\ unread' = Min(unread + 1, 2)
     /\ shrunk' = (wr # <<>> /\ Len(wr[1]) > len)
     /\ drained' = FALSE
     /\ left' = <<>>
     /\ last' = [NoCall EXCEPT !.op = "write", !.who = c, !.ret = len, !.arg = buffer]
     /\ UNCHANGED <<numberOpens, tdlchar_mutex, opened, oob, inflight, lifecycle>>

\* the write of len >= N bytes: message[len] (and message[i] for i >= N) is
\* stored past the end of the array
DevWriteOverrun(c, buffer) ==
  LET len == Len(buffer)
      stored == WriteStore(message, buffer, len)
  IN /\ c \in opened
     /\ len >= N
     /\ message' = stored
     /\ oob' = TRUE
     /\ size_of_message' \in {ToShort(k) : k \in OverrunLengths(stored, len)}
     /\ numberOpens' \in ClobberedOpens(numberOpens)
     /\ wr' = <<buffer>>
     /\ unread' = Min(unread + 1, 2)
     /\ shrunk' = (wr # <<>> /\ Len(wr[1]) > len)
     /\ drained' = FALSE
     /\ left' = <<>>
     /\ last' = [NoCall EXCEPT !.op = "write", !.who = c, !.ret = len, !.arg = buffer]
     /\ UNCHANGED <<tdlchar_mutex, opened, inflight, lifecycle>>

DevWrite(c, buffer) == DevWriteFits(c, buffer) \/ DevWriteOverrun(c, buffer)

\* the write from a buffer of which only the bytes acc can be read: the loop
\* dereferences the user pointer itself (there is no copy_from_user), stores
\* toupper of the bytes it could read and then faults in the kernel; the call
\* never reaches message[len] = '\0', the strlen or the return
DevWriteFault(c, acc) ==
  /\ c \in opened
  /\ message' = Transform(acc) \o SubSeq(message, Len(acc) + 1, N)
  /\ IF acc = <<>>
     THEN UNCHANGED <<wr, unread, shrunk, left>>
     ELSE wr' = <<>> /\ unread' = 0 /\ shrunk' = FALSE /\ left' = <<>>
  /\ last' = [NoCall EXCEPT !.op = "write_oops", !.who = c, !.arg = acc,
                            !.size0 = size_of_message]
  /\ UNCHANGED <<size_of_message, numberOpens, tdlchar_mutex, opened, oob, drained, inflight, lifecycle>>

(* ---- dev_read ---- *)
\* faulty variants: the length reset on every read, and never reset
SizeAfterReadAlwaysReset(size, error_count) == 0
SizeAfterReadNoReset(size, error_count) == size

\* size_of_message after a read whose copy_to_user returned error_count
SizeAfterRead(size, error_count) == IF error_count = 0 THEN 0 ELSE size

DevRead(c, len, error_count) ==
  LET n == CopyLength(size_of_message, len)
  IN /\ c \in opened
     /\ error_count \in UncopiedOutcomes(n)
     /\ size_of_message' = SizeAfterRead(size_of_message, error_count)
     /\ wr' = IF error_count = 0 THEN <<>> ELSE wr
     /\ unread' = IF error_count = 0 THEN 0 ELSE unread
     /\ shrunk' = IF error_count = 0 THEN FALSE ELSE shrunk
     /\ drained' = IF error_count = 0 THEN TRUE ELSE drained
     /\ left' = IF error_count = 0 THEN <<>> ELSE left
     /\ last' = [op |-> "read", who |-> c,
                 ret |-> IF error_count = 0 THEN ReadReturn(size_of_message) ELSE -EFAULT,
                 arg |-> <<>>, cap |-> len, size0 |-> size_of_message,
                 copied |-> n - error_count,
                 data |-> Prefix(message, n - error_count),
                 wr |-> wr, nw |-> unread, held0 |-> FALSE, drained0 |-> drained,
                 shrunk0 |-> shrunk, retry |-> (last.op = "read" /\ last.ret < 0),
                 left0 |-> left]
     /\ UNCHANGED <<message, numberOpens, tdlchar_mutex, opened, oob, inflight, lifecycle>>

Next ==
  \/ \E c \in Callers : DevOpen(c)
  \/ \E c \in Callers : DevRelease(c)
  \/ \E c \in Callers, buffer \in Payloads : DevWrite(c, buffer)
  \/ \E c \in Callers, acc \in AccessiblePrefixes : DevWriteFault(c, acc)
  \/ \E c \in Callers, len \in Capacities :
        \E error_count \in UncopiedOutcomes(CopyLength(size_of_message, len)) :
           DevRead(c, len, error_count)

Spec == Init /\ [][Next]_vars

(* ---- toupper on its own: every byte value, applied once and twice ---- *)
InitToupper ==
  /\ Loaded
  /\ message = [i \in 1..N |-> 0]
  /\ size_of_message = 0
  /\ numberOpens = 0
  /\ tdlchar_mutex = FALSE
  /\ opened = {}
  /\ oob = FALSE
  /\ wr = <<>>
  /\ unread = 0
  /\ shrunk = FALSE
  /\ drained = FALSE
  /\ left = <<>>
  /\ inflight = Idle
  /\ last \in {[NoCall EXCEPT !.op = "toupper", !.arg = <<b>>] : b \in 0..255}

\* outChar = toupper(inChar): last.data collects toupper(b) and toupper(toupper(b))
ToupperCall ==
  /\ last.op = "toupper"
  /\ Len(last.data) < 2
  /\ last' = [last EXCEPT !.data =
                 Append(@, Toupper(IF @ = <<>> THEN last.arg[1] ELSE @[Len(@)]))]
  /\ UNCHANGED <<message, size_of_message, numberOpens, tdlchar_mutex, opened, oob, wr,
                 unread, shrunk, drained, left, inflight, lifecycle>>

NextToupper == ToupperCall

SpecToupper == InitToupper /\ [][NextToupper]_vars

(* ---- dev_read and dev_write step by step: two threads that share the open
        file call them at the same time; neither handler takes a lock ---- *)
OverlapPayloads ==
  {p \in SmallPayloads \cup SamplePayloads : p # <<>> /\ \A i \in 1..Len(p) : p[i] # 0}

NoCallInFlight == inflight.wpc = "idle" /\ inflight.rpc = "idle"

\* dev_open / dev_release while no read or write is in flight on the file
OverlapOpen(c) == NoCallInFlight /\ DevOpen(c)

OverlapRelease(c) == NoCallInFlight /\ DevRelease(c)

\* entry of dev_write(filep, buffer, len, offset)
WriteBegin(c, buffer) ==
  /\ c \in opened
  /\ inflight.wpc = "idle"
  /\ inflight' = [inflight EXCEPT !.wpc = "store", !.wbuf = buffer, !.wi = 0]
  /\ UNCHANGED <<device, opened, oob, wr, unread, shrunk, drained, left, last, lifecycle>>

\* one turn of the loop: message[i] = toupper(buffer[i])
WriteStoreByte(c) ==
  /\ c \in opened
  /\ inflight.wpc = "store"
  /\ inflight.wi < Len(inflight.wbuf)
  /\ message' = [message EXCEPT ![inflight.wi + 1] = Toupper(inflight.wbuf[inflight.wi + 1])]
  /\ inflight' = [inflight EXCEPT !.wi = @ + 1]
  /\ UNCHANGED <<size_of_message, numberOpens, tdlchar_mutex, opened, oob, wr, unread,
                 shrunk, drained, left, last, lifecycle>>

\* after the loop: message[len] = '\0'
WriteTerminate(c) ==
  /\ c \in opened
  /\ inflight.wpc = "store"
  /\ inflight.wi = Len(inflight.wbuf)
  /\ message' = [message EXCEPT ![inflight.wi + 1] = 0]
  /\ inflight' = [inflight EXCEPT !.wpc = "length"]
  /\ UNCHANGED <<size_of_message, numberOpens, tdlchar_mutex, opened, oob, wr, unread,
                 shrunk, drained, left, last, lifecycle>>

\* size_of_message = strlen(message); return len
WriteFinish(c) ==
  /\ c \in opened
  /\ inflight.wpc = "length"
  /\ size_of_message' = ToShort(Strlen(message))
  /\ inflight' = [inflight EXCEPT !.wpc = "idle", !.wbuf = <<>>, !.wi = 0,
                                  !.done = @ \cup {inflight.wbuf}]
  /\ last' = [NoCall EXCEPT !.op = "write", !.who = c, !.ret = Len(inflight.wbuf),
                            !.arg = inflight.wbuf]
  /\ UNCHANGED <<message, numberOpens, tdlchar_mutex, opened, oob, wr, unread, shrunk,
                 drained, left, lifecycle>>

\* error_count = copy_to_user(buffer, message, size_of_message), all bytes copied
ReadCopy(c) ==
  /\ c \in opened
  /\ inflight.rpc = "idle"
  /\ inflight' = [inflight EXCEPT !.rpc = "copied", !.rn = size_of_message,
                                  !.rdata = Prefix(message, size_of_message)]
  /\ UNCHANGED <<device, opened, oob, wr, unread, shrunk, drained, left, last, lifecycle>>

\* return (size_of_message=0)
ReadFinish(c) ==
  /\ c \in opened
  /\ inflight.rpc = "copied"
  /\ size_of_message' = SizeAfterRead(size_of_message, 0)
  /\ inflight' = [inflight EXCEPT !.rpc = "idle", !.rn = 0, !.rdata = <<>>]
  /\ last' = [NoCall EXCEPT !.op = "read", !.who = c, !.ret = ReadReturn(inflight.rn),
                            !.size0 = size_of_message, !.copied = inflight.rn,
                            !.data = inflight.rdata]
  /\ UNCHANGED <<message, numberOpens, tdlchar_mutex, opened, oob, wr, unread, shrunk,
                 drained, left, lifecycle>>

NextOverlap ==
  \/ \E c \in Callers : OverlapOpen(c)
  \/ \E c \in Callers : OverlapRelease(c)
  \/ \E c \in Callers, buffer \in OverlapPayloads : WriteBegin(c, buffer)
  \/ \E c \in Callers : WriteStoreByte(c)
  \/ \E c \in Callers : WriteTerminate(c)
  \/ \E c \in Callers : WriteFinish(c)
  \/ \E c \in Callers : ReadCopy(c)
  \/ \E c \in Callers : ReadFinish(c)

SpecOverlap == Init /\ [][NextOverlap]_vars

(* ---- tdlchar_init and tdlchar_exit step by step, with callers opening and
        closing the device meanwhile.  fops has no .owner, so an open file does
        not pin the module, and the device can be opened from the moment
        register_chrdev has returned ---- *)
session == <<opened, oob, wr, unread, shrunk, drained, left, inflight, last>>

IS_ERR(ptr) == ptr < 0

PTR_ERR(ptr) == ptr

\* what a registration call can hand back: the value of success, or an error
Outcomes(success) == {success} \cup {-e : e \in Errnos}

\* the module before insmod: the statics as their initialisers leave them
InitLifecycle ==
  /\ message = [i \in 1..N |-> 0]
  /\ size_of_message = 0
  /\ numberOpens = 0
  /\ tdlchar_mutex = FALSE
  /\ opened = {}
  /\ oob = FALSE
  /\ wr = <<>>
  /\ unread = 0
  /\ shrunk = FALSE
  /\ drained = FALSE
  /\ left = <<>>
  /\ inflight = Idle
  /\ majorNumber = 0
  /\ tdlcharClass = 0
  /\ tdlcharDevice = 0
  /\ registered = {}
  /\ mutex_destroyed = FALSE
  /\ loader = [pc |-> "register", ret |-> 0]
  /\ last = NoCall

\* majorNumber = register_chrdev(0, DEVICE_NAME, &fops); if (majorNumber<0) return majorNumber
InitRegisterChrdev ==
  /\ loader.pc = "register"
  /\ \E r \in Outcomes(DynamicMajor) :
       /\ majorNumber' = r
       /\ IF r < 0
          THEN /\ loader' = [pc |-> "failed", ret |-> r]
               /\ UNCHANGED registered
          ELSE /\ loader' = [loader EXCEPT !.pc = "class"]
               /\ registered' = registered \cup {"chrdev"}
  /\ UNCHANGED <<device, session, tdlcharClass, tdlcharDevice, mutex_destroyed>>

\* tdlcharClass = class_create(...); on error unregister_chrdev and return PTR_ERR
InitClassCreate ==
  /\ loader.pc = "class"
  /\ \E r \in Outcomes(1) :
       /\ tdlcharClass' = r
       /\ IF IS_ERR(r)
          THEN /\ registered' = registered \ {"chrdev"}
               /\ loader' = [pc |-> "failed", ret |-> PTR_ERR(r)]
          ELSE /\ registered' = registered \cup {"class"}
               /\ loader' = [loader EXCEPT !.pc = "device"]
  /\ UNCHANGED <<device, session, majorNumber, tdlcharDevice, mutex_destroyed>>

\* faulty variant of the device_create step: unregister_chrdev left out of the
\* error branch
InitDeviceCreateLeaksMajor ==
  /\ loader.pc = "device"
  /\ \E r \in Outcomes(1) :
       /\ tdlcharDevice' = r
       /\ IF IS_ERR(r)
          THEN /\ registered' = registered \ {"class"}
               /\ loader' = [pc |-> "failed", ret |-> PTR_ERR(r)]
          ELSE /\ registered' = registered \cup {"device"}
               /\ loader' = [loader EXCEPT !.pc = "mutex"]
  /\ UNCHANGED <<device, session, majorNumber, tdlcharClass, mutex_destroyed>>

\* tdlcharDevice = device_create(...); on error class_destroy, unregister_chrdev
\* and return PTR_ERR
InitDeviceCreate ==
  /\ loader.pc = "device"
  /\ \E r \in Outcomes(1) :
       /\ tdlcharDevice' = r
       /\ IF IS_ERR(r)
          THEN /\ registered' = (registered \ {"class"}) \ {"chrdev"}
               /\ loader' = [pc |-> "failed", ret |-> PTR_ERR(r)]
          ELSE /\ registered' = registered \cup {"device"}
               /\ loader' = [loader EXCEPT !.pc = "mutex"]
  /\ UNCHANGED <<device, session, majorNumber, tdlcharClass, mutex_destroyed>>

\* mutex_init(&tdlchar_mutex); return 0
InitMutexInit ==
  /\ loader.pc = "mutex"
  /\ tdlchar_mutex' = FALSE
  /\ mutex_destroyed' = FALSE
  /\ loader' = [pc |-> "live", ret |-> 0]
  /\ UNCHANGED <<message, size_of_message, numberOpens, session, majorNumber, tdlcharClass,
                 tdlcharDevice, registered>>

\* rmmod: mutex_destroy(&tdlchar_mutex)
ExitMutexDestroy ==
  /\ loader.pc = "live"
  /\ mutex_destroyed' = TRUE
  /\ loader' = [loader EXCEPT !.pc = "exit_device"]
  /\ UNCHANGED <<device, session, majorNumber, tdlcharClass, tdlcharDevice, registered>>

\* device_destroy(tdlcharClass, MKDEV(majorNumber, 0))
ExitDeviceDestroy ==
  /\ loader.pc = "exit_device"
  /\ registered' = registered \ {"device"}
  /\ loader' = [loader EXCEPT !.pc = "exit_class"]
  /\ UNCHANGED <<device, session, majorNumber, tdlcharClass, tdlcharDevice, mutex_destroyed>>

\* class_unregister(tdlcharClass); class_destroy(tdlcharClass)
ExitClassDestroy ==
  /\ loader.pc = "exit_class"
  /\ registered' = registered \ {"class"}
  /\ loader' = [loader EXCEPT !.pc = "exit_chrdev"]
  /\ UNCHANGED <<device, session, majorNumber, tdlcharClass, tdlcharDevice, mutex_destroyed>>

\* unregister_chrdev(majorNumber, DEVICE_NAME)
ExitUnregisterChrdev ==
  /\ loader.pc = "exit_chrdev"
  /\ registered' = registered \ {"chrdev"}
  /\ loader' = [loader EXCEPT !.pc = "unloaded"]
  /\ UNCHANGED <<device, session, majorNumber, tdlcharClass, tdlcharDevice, mutex_destroyed>>

\* dev_open on the destroyed mutex: mutex_trylock may take it or refuse it
OpenDestroyedGate(c) ==
  /\ c \notin opened
  /\ \E taken \in BOOLEAN :
       IF taken
       THEN /\ numberOpens < MaxOpens
            /\ tdlchar_mutex' = TRUE
            /\ numberOpens' = numberOpens + 1
            /\ opened' = opened \cup {c}
            /\ last' = [NoCall EXCEPT !.op = "open", !.who = c, !.ret = 0,
                                      !.held0 = (opened # {})]
       ELSE /\ last' = [NoCall EXCEPT !.op = "open", !.who = c, !.ret = -EBUSY,
                                      !.held0 = (opened # {})]
            /\ UNCHANGED <<tdlchar_mutex, numberOpens, opened>>
  /\ UNCHANGED <<message, size_of_message, oob, wr, unread, shrunk, drained, left, inflight,
                 lifecycle>>

\* an open reaches dev_open while the major number is registered
LifecycleOpen(c) ==
  /\ "chrdev" \in registered
  /\ IF mutex_destroyed THEN OpenDestroyedGate(c) ELSE DevOpen(c)

\* a close reaches dev_release while the module's code is in memory
LifecycleRelease(c) ==
  /\ loader.pc \notin {"failed", "unloaded"}
  /\ DevRelease(c)

NextLifecycle ==
  \/ InitRegisterChrdev
  \/ InitClassCreate
  \/ InitDeviceCreate
  \/ InitMutexInit
  \/ ExitMutexDestroy
  \/ ExitDeviceDestroy
  \/ ExitClassDestroy
  \/ ExitUnregisterChrdev
  \/ \E c \in Callers : LifecycleOpen(c)
  \/ \E c \in Callers : LifecycleRelease(c)

SpecLifecycle == InitLifecycle /\ [][NextLifecycle]_vars

(***************************************************************************)
(* Properties                                                              *)
(***************************************************************************)

\* what the caller is promised: the payload with every lower-case ASCII
\* letter replaced by its upper-case letter, all other bytes as sent
UpperCaseOf(p) == [i \in 1..Len(p) |-> IF p[i] \in 97..122 THEN p[i] - 32 ELSE p[i]]

NulFree(p) == \A i \in 1..Len(p) : p[i] # 0

ReadOk == last.op = "read" /\ last.ret >= 0
ReadFailed == last.op = "read" /\ last.ret < 0

\* C1: at most one session is open in every reachable state, and an open
\* attempted while a session is open returns -EBUSY.
C1_Exclusivity ==
  /\ Cardinality(opened) <= 1
  /\ (last.op = "open" /\ last.held0) => last.ret = -EBUSY

C1_Witness ==
  /\ last.op = "open" /\ last.held0 /\ last.ret = -EBUSY
  /\ Cardinality(opened) = 1

\* C2: an open attempted while the mutex is held is never made to wait (the
\* call can always be taken), ends with -EBUSY in that one step, and leaves
\* tdlchar_mutex, numberOpens, message and size_of_message as they were.
C2_BusyOpenNoChange ==
  /\ [](\A c \in Callers \ opened : tdlchar_mutex => ENABLED DevOpen(c))
  /\ [][(tdlchar_mutex /\ \E c \in Callers : DevOpen(c))
          => (last'.ret = -EBUSY /\ UNCHANGED device)]_vars

C2_Witness ==
  /\ last.op = "open" /\ last.ret = -EBUSY
  /\ tdlchar_mutex /\ numberOpens = 1 /\ size_of_message > 0

\* C3 as stated: for every payload p shorter than N, a write of p followed in
\* the same session by a successful read with enough room delivers exactly
\* Len(p) bytes, the upper-case image of p.
C3_RoundTripEveryPayload ==
  (ReadOk /\ last.nw = 1 /\ Len(last.wr[1]) < N /\ last.cap >= Len(last.wr[1]))
    => (last.copied = Len(last.wr[1]) /\ last.data = UpperCaseOf(last.wr[1]))

\* C3 amended: the round trip holds for every payload shorter than N that
\* contains no zero byte.
C3_RoundTripNulFree ==
  (ReadOk /\ last.nw = 1 /\ Len(last.wr[1]) < N /\ last.cap >= Len(last.wr[1])
     /\ NulFree(last.wr[1]))
    => (last.copied = Len(last.wr[1]) /\ last.data = UpperCaseOf(last.wr[1]))

C3_Witness ==
  /\ ReadOk /\ last.nw = 1 /\ last.cap >= Len(last.wr[1])
  /\ last.wr[1] = <<97, 66>>
  /\ last.data = <<65, 66>>

\* C4: after a successful read size_of_message is 0, and a read made after a
\* successful read with no write in between copies nothing and returns 0.
C4_ReadIsDestructive ==
  /\ ReadOk => size_of_message = 0
  /\ (last.op = "read" /\ last.drained0)
       => (last.ret = 0 /\ last.copied = 0 /\ last.data = <<>>)

C4_Witness ==
  /\ last.op = "read" /\ last.drained0 /\ last.ret = 0 /\ last.copied = 0
  /\ \E i \in 1..N : message[i] # 0

\* C5 as stated: a successful read returns the number of bytes it copied, the
\* value size_of_message had before the read.
C5_ReadReturnsCount ==
  ReadOk => (last.ret = last.copied /\ last.ret = last.size0)

\* C5 amended: a successful read copies the size_of_message bytes stored before
\* the read and returns 0, whatever the number of bytes it copied.
C5_ReadReturnsZero ==
  ReadOk => (last.ret = 0 /\ last.copied = last.size0)

C5_Witness ==
  ReadOk /\ last.size0 = 2 /\ last.copied = 2 /\ last.ret = 0

\* C6 as stated: when two payloads shorter than N are written with no read in
\* between, the read delivers exactly the upper-case image of the second one.
C6_LastWriteWinsEveryPayload ==
  (ReadOk /\ last.nw = 2 /\ Len(last.wr[1]) < N)
    => (last.copied = Len(last.wr[1]) /\ last.data = UpperCaseOf(last.wr[1]))

\* C6 amended: the same, for a second payload that contains no zero byte.
C6_LastWriteWinsNulFree ==
  (ReadOk /\ last.nw = 2 /\ Len(last.wr[1]) < N /\ NulFree(last.wr[1]))
    => (last.copied = Len(last.wr[1]) /\ last.data = UpperCaseOf(last.wr[1]))

C6_Witness ==
  /\ ReadOk /\ last.nw = 2 /\ last.shrunk0
  /\ last.wr[1] = <<97>> /\ last.data = <<65>>
  /\ message[3] # 0

\* C7: a write of N bytes or more fails (a negative return) and leaves message
\* and size_of_message as they were; a write of N-1 bytes returns N-1.
C7_TooLargeRejected ==
  [][(last'.op = "write")
       => IF Len(last'.arg) >= N
          THEN last'.ret < 0 /\ UNCHANGED <<message, size_of_message>>
          ELSE last'.ret = Len(last'.arg)]_vars

\* C8: size_of_message stays within 0..N-1 and no byte is ever stored outside
\* message[0..N-1].
C8_BufferBound ==
  /\ size_of_message \in 0..(N - 1)
  /\ ~oob

\* C9: a read whose copy fails returns -EFAULT and leaves message and
\* size_of_message unchanged; the read retried right after it delivers the
\* whole stored message.
C9_FailedReadKeepsMessage ==
  /\ [][(last'.op = "read" /\ last'.ret < 0)
          => (last'.ret = -EFAULT /\ UNCHANGED <<message, size_of_message>>)]_vars
  /\ [](ReadFailed => (size_of_message = last.size0 /\ wr = last.wr))
  /\ []((ReadOk /\ last.retry /\ last.wr # <<>> /\ Len(last.wr[1]) < N
           /\ NulFree(last.wr[1]))
          => last.data = UpperCaseOf(last.wr[1]))

C9_Witness ==
  /\ ReadOk /\ last.retry
  /\ last.wr = <<(<<97, 66>>)>> /\ last.data = <<65, 66>>

\* C10: a read never copies more bytes to the destination than
\* min(size_of_message, len), len being the capacity the caller passed.
C10_ReadWithinCapacity ==
  last.op = "read" => last.copied <= Min(last.size0, last.cap)

\* the index of the first zero byte of p, Len(p) when it has none
FirstNul(p) ==
  CHOOSE i \in 0..Len(p) : (i = Len(p) \/ p[i + 1] = 0) /\ \A j \in 1..i : p[j] # 0

\* C11 as stated: a write of L < N bytes returns L and leaves size_of_message
\* equal to L, zero bytes in the payload included.
C11_WriteStoresLength ==
  (last.op = "write" /\ Len(last.arg) < N)
    => (last.ret = Len(last.arg) /\ size_of_message = Len(last.arg))

\* C11 amended: a write of L < N bytes returns L; it leaves size_of_message
\* equal to L when the payload has no zero byte, and equal to the index of the
\* first zero byte of the payload otherwise.
C11_WriteStoresStringLength ==
  (last.op = "write" /\ Len(last.arg) < N)
    => (last.ret = Len(last.arg) /\ size_of_message = FirstNul(last.arg))

C11_Witness ==
  last.op = "write" /\ last.arg = <<66, 0, 97>> /\ last.ret = 3 /\ size_of_message = 1

\* C12: toupper(b) = b - 32 for b in 'a'..'z' and b for every other byte
\* value, and toupper(toupper(b)) = toupper(b).
C12_TransformCorrect ==
  last.op = "toupper" =>
    /\ Len(last.data) >= 1 =>
         last.data[1] = (IF last.arg[1] \in 97..122 THEN last.arg[1] - 32 ELSE last.arg[1])
    /\ Len(last.data) = 2 => last.data[2] = last.data[1]

C12_Witness ==
  last.op = "toupper" /\ last.arg = <<122>> /\ last.data = <<90, 90>>

\* C13: a release returns 0 and leaves the mutex unlocked; the open that
\* follows a release succeeds, and any caller can make it.
C13_CloseThenOpen ==
  /\ [](last.op = "release" => (last.ret = 0 /\ ~tdlchar_mutex))
  /\ []((last.op = "release" /\ numberOpens < MaxOpens)
          => \A c \in Callers : ENABLED DevOpenOk(c))
  /\ [][(last.op = "release" /\ last'.op = "open") => last'.ret = 0]_vars

C13_Witness ==
  last.op = "open" /\ last.ret = 0 /\ numberOpens = 2 /\ ~last.held0

\* C14 as stated: a read made in a session that has written nothing, opened
\* after a session that left a message unread, returns an empty result.
C14_NewSessionSeesEmpty ==
  (last.op = "read" /\ last.nw = 0 /\ last.left0 # <<>>)
    => (last.copied = 0 /\ last.data = <<>>)

\* C14 amended: such a read returns an empty result when the last completed
\* store operation was a successful read, and delivers the message of the
\* earlier session when that session left one unread.
C14_NewSessionSeesLeftover ==
  /\ (last.op = "read" /\ last.nw = 0 /\ last.drained0)
       => (last.copied = 0 /\ last.data = <<>>)
  /\ (ReadOk /\ last.nw = 0 /\ last.left0 # <<>> /\ Len(last.left0[1]) < N
        /\ NulFree(last.left0[1]))
       => (last.copied = Len(last.left0[1]) /\ last.data = UpperCaseOf(last.left0[1]))

C14_Witness ==
  /\ ReadOk /\ last.nw = 0 /\ last.left0 = <<(<<97, 66>>)>>
  /\ last.data = <<65, 66>> /\ numberOpens = 2

\* C15: message and size_of_message change only in a read or write made by the
\* one caller whose session holds the mutex; a caller without an open file can
\* make no read or write at all.
C15_OnlyHolderMutates ==
  /\ [][(message' # message \/ size_of_message' # size_of_message)
          => (/\ last'.op \in {"read", "write", "write_oops"}
              /\ opened = {last'.who}
              /\ tdlchar_mutex)]_vars
  /\ [](\A c \in Callers \ opened :
          /\ ~ENABLED (\E buffer \in Payloads : DevWrite(c, buffer))
          /\ ~ENABLED (\E len \in Capacities : DevRead(c, len, 0)))

C15_Witness ==
  /\ last.op = "write" /\ last.who = 2 /\ opened = {2}
  /\ numberOpens = 2 /\ size_of_message = 2

\* C16: once locked, the mutex stays locked and the session stays open across
\* every call that is not a release, an open made meanwhile returns -EBUSY,
\* and a release is always made by the session that holds the mutex.
C16_HeldUntilClose ==
  /\ [][(tdlchar_mutex /\ last'.op # "release")
          => (/\ tdlchar_mutex'
              /\ opened' = opened
              /\ last'.op = "open" => last'.ret = -EBUSY)]_vars
  /\ [][last'.op = "release" => (last'.who \in opened /\ tdlchar_mutex)]_vars

C16_Witness ==
  /\ tdlchar_mutex /\ last.op = "open" /\ last.ret = -EBUSY
  /\ wr # <<>> /\ unread = 1 /\ size_of_message = 1

\* C17: a write of N bytes or more, or from a buffer that cannot be read to
\* its end, returns an error and leaves message and size_of_message exactly as
\* they were.
C17_FailedWriteKeepsStore ==
  [][(last'.op = "write_oops" \/ (last'.op = "write" /\ Len(last'.arg) >= N))
       => (last'.ret < 0 /\ UNCHANGED <<message, size_of_message>>)]_vars

C19_GateKeepsStore ==
  /\ [][last'.op \in {"open", "release"} => UNCHANGED <<message, size_of_message>>]_vars
  /\ []((last.op = "release" /\ left # <<>> /\ Len(left[1]) < N /\ NulFree(left[1]))
          => (/\ size_of_message = Len(left[1])
              /\ Prefix(message, Len(left[1])) = UpperCaseOf(left[1])))

C19_Witness ==
  last.op = "release" /\ left = <<(<<97, 66>>)>> /\ size_of_message = 2
\* C20: whatever the interleaving of the steps of read and write, a
\* successful read delivers nothing or the complete upper-cased payload of one
\* completed write, and a read that resets size_of_message has delivered what
\* was stored at that moment.
C20_NoGarbledPayload ==
  /\ []((last.op = "read" /\ last.ret >= 0)
          => (last.data = <<>> \/ \E p \in inflight.done : last.data = UpperCaseOf(p)))
  /\ [][(last'.op = "read" /\ last' # last /\ size_of_message > 0 /\ size_of_message' = 0)
          => last'.data = Prefix(message, size_of_message)]_vars
\* C21: the mutex guards the device for as long as it can be opened: at
\* most one caller holds an open file and the mutex is locked while one does,
\* also for opens made while tdlchar_init or tdlchar_exit runs.
C21_GateValidWhileReachable ==
  /\ Cardinality(opened) <= 1
  /\ opened # {} => tdlchar_mutex

\* C22: when tdlchar_init has returned an error nothing is registered, and
\* when it has returned 0 the major number, the class and the device are all
\* registered; it returns one or the other.
C22_InitAllOrNothing ==
  /\ loader.pc = "failed" => (loader.ret < 0 /\ registered = {})
  /\ loader.pc = "live" => (loader.ret = 0 /\ registered = {"chrdev", "class", "device"})
  /\ registered = {"chrdev", "class", "device"} => loader.pc \in {"mutex", "live", "exit_device"}

C22_Witness ==
  /\ loader.pc = "failed" /\ loader.ret = -12 /\ registered = {}
  /\ majorNumber = 240 /\ tdlcharClass = 1 /\ tdlcharDevice = -12

====
